---- MODULE Spec2Model ----
(***************************************************************************)
(* ClassRoomsController (backend/api/controllers/ClassRoomsController.py): *)
(* the classroom, ClassMember and TeamMember tables and the controller's   *)
(* request handlers over them.                                             *)
(*                                                                         *)
(*   Spec      the handlers, each request run to completion, from an empty *)
(*             database                                                    *)
(*   SpecEnv   Spec plus the external collaborator that accepts            *)
(*             memberships                                                 *)
(*   SpecTeams the read handlers over the datasets of ClassMember and      *)
(*             TeamMember rows the external collaborators can leave        *)
(*   SpecFrame the handlers of Spec from a database that already holds a   *)
(*             classroom, a ClassMember row and a TeamMember row           *)
(*   SpecConc  the multi-query handlers (create, join,                     *)
(*             join_class_as_guest) split at their database calls, so that *)
(*             requests interleave                                         *)
(***************************************************************************)
EXTENDS Integers, FiniteSets, Sequences, TLC

VARIABLES classrooms,    \* ClassRoom rows: [id, class_code, invited_users]
          members,       \* ClassMember rows: [id, user_id, class_id, role, status]
          teammembers,   \* TeamMember rows: [id, class_member_id, team_id, role, status]
          nextClassId,   \* auto-increment primary keys
          nextMemberId,
          nextTeamMemberId,
          response,      \* the last response: [op, user, arg, status, data]
          reqs           \* requests in flight (SpecConc): slot -> [pc, user, code, class, role]

vars == <<classrooms, members, teammembers, nextClassId, nextMemberId,
          nextTeamMemberId, response, reqs>>

db == <<classrooms, members, teammembers>>

----------------------------------------------------------------------------
(* Bounds of the model *)

MaxClasses == 2
MaxMembers == 2
MaxTeamMembers == 2
MaxInvites == 1
MaxReqs == 2

(* Users of the system; request.user ranges over them: "mod" is a         *)
(* moderator and superuser, "stu" is neither.  Emails identify users       *)
(* (User.objects.get(email=...)), UnknownEmail belongs to no user and      *)
(* NoEmail is a request without the field.                                 *)
Users == {"mod", "stu"}
UnknownEmail == "nobody"
NoEmail == ""
Emails == Users \cup {UnknownEmail, NoEmail}

(* Class codes a request can carry; NoCode is a missing or empty one.      *)
NoCode == "none"
Codes == {"A", "B"}

TEACHER == "TEACHER"
STUDENT == "STUDENT"
GUEST == "GUEST"
PENDING == "PENDING"
ACCEPTED == "ACCEPTED"
LEADER == "LEADER"
MEMBER == "MEMBER"
Teams == {"t1", "t2"}

(* The user_role values a join_class_as_guest request can carry;           *)
(* NoRole is a request without the field.                                  *)
NoRole == "absent"
RoleInputs == {NoRole, "1", "2", "3"}
(* The user_role values of the interleaved runs *)
ConcRoleInputs == {NoRole, "1"}

(* Peer evaluations the ClassRoomPE rows can link to a classroom *)
PeerEvals == {"pe1"}

Anyone == "anyone"
NoResponse == [op |-> "none", user |-> Anyone, arg |-> NoCode, status |-> "0", data |-> {}]
Idle == [pc |-> "idle", user |-> Anyone, code |-> NoCode, class |-> 0, role |-> NoRole]

----------------------------------------------------------------------------
(* Permissions *)

IsModerator(u) == u = "mod"

is_superuser(u) == u = "mod"

MutGetPermissionsNoDestroy(action) ==
    IF action \in {"create", "update", "partial_update", "nonleaders", "leaders"}
    THEN {"IsAuthenticated", "IsModerator"}
    ELSE IF action \in {"retrieve", "list", "join"}
    THEN {"IsAuthenticated"}
    ELSE {}

get_permissions(action) ==
    IF action \in {"create", "destroy", "update", "partial_update", "nonleaders", "leaders"}
    THEN {"IsAuthenticated", "IsModerator"}
    ELSE IF action \in {"retrieve", "list", "join"}
    THEN {"IsAuthenticated"}
    ELSE {}

(* The framework's check_permissions: every permission of the action.      *)
Permitted(action, u) ==
    "IsModerator" \in get_permissions(action) => IsModerator(u)

Resp(op, u, arg, st, data) ==
    [op |-> op, user |-> u, arg |-> arg, status |-> st, data |-> data]

(* check_permissions runs before the handler reads its arguments *)
Forbidden(op, u) == Resp(op, u, NoCode, "403", {})

----------------------------------------------------------------------------
(* Queries over the tables *)

ClassIds == {c.id : c \in classrooms}

MutClassesWithCodeAnyClass(code) == classrooms

(* ClassRoom.objects.get(class_code=class_code) *)
ClassesWithCode(code) == {c \in classrooms : c.class_code = code}

(* ClassMember.objects.filter(user_id=request.user, class_id__class_code=class_code) *)
MembersByCode(u, code) ==
    {m \in members : m.user_id = u /\ \E c \in classrooms :
                          c.id = m.class_id /\ c.class_code = code}

(* ClassMember.objects.filter(user_id=request.user, class_id=class_id) *)
MembersOfPair(u, id) == {m \in members : m.user_id = u /\ m.class_id = id}

(* The serializer's validation of a classroom body: the class code is      *)
(* present and is the code of no other classroom.                          *)
ValidClassRoom(code, self) ==
    /\ code \in Codes
    /\ \A c \in classrooms : c.class_code = code => c.id = self

NewClassRoom(code) ==
    [id |-> nextClassId, class_code |-> code, invited_users |-> {}]

MutStudentMemberAccepted(u, id) ==
    [id |-> nextMemberId, user_id |-> u, class_id |-> id,
     role |-> STUDENT, status |-> ACCEPTED]

MutTeacherMemberPending(u, id) ==
    [id |-> nextMemberId, user_id |-> u, class_id |-> id,
     role |-> TEACHER, status |-> PENDING]

(* The row create() adds for the creator *)
TeacherMember(u, id) ==
    [id |-> nextMemberId, user_id |-> u, class_id |-> id,
     role |-> TEACHER, status |-> ACCEPTED]

(* The row join() adds *)
StudentMember(u, id) ==
    [id |-> nextMemberId, user_id |-> u, class_id |-> id,
     role |-> STUDENT, status |-> PENDING]

MutGuestRoleSwapped(number) ==
    LET n == IF number = NoRole THEN "3" ELSE number
    IN  IF n = "1" THEN STUDENT
        ELSE IF n = "2" THEN TEACHER
        ELSE GUEST

(* join_class_as_guest: the role selected by the request's user_role *)
GuestRole(number) ==
    LET n == IF number = NoRole THEN "3" ELSE number
    IN  IF n = "1" THEN TEACHER
        ELSE IF n = "2" THEN STUDENT
        ELSE GUEST

(* The row join_class_as_guest() adds *)
GuestMember(u, id, number) ==
    [id |-> nextMemberId, user_id |-> u, class_id |-> id,
     role |-> GuestRole(number), status |-> PENDING]

MutInsertMemberUpdateOrCreate(row) ==
    {m \in members : m.user_id # row.user_id} \cup {row}

MutInsertMemberUnlessPresent(row) ==
    IF \E m \in members : m.user_id = row.user_id /\ m.class_id = row.class_id
    THEN members
    ELSE members \cup {row}

(* ClassMember.objects.create(...): the insert is unconditional *)
InsertMember(row) == members \cup {row}

MutRolledBackOnFailure(cs, id) == {c \in cs : c.id # id}

(* The classrooms create() leaves when its membership write raised: the    *)
(* except branch answers 500 and deletes nothing.                          *)
KeptOnFailure(cs, id) == cs

----------------------------------------------------------------------------
(* Init: the empty database, no request answered or in flight *)

Init ==
    /\ classrooms = {}
    /\ members = {}
    /\ teammembers = {}
    /\ nextClassId = 1
    /\ nextMemberId = 1
    /\ nextTeamMemberId = 1
    /\ response = NoResponse
    /\ reqs = [r \in 1..MaxReqs |-> Idle]

----------------------------------------------------------------------------
(* The handlers, each run to completion: a request is taken when the      *)
(* previous one has been answered.                                         *)

Ready == response = NoResponse

(* The response leaves the server *)
Respond ==
    /\ response # NoResponse
    /\ response' = NoResponse
    /\ UNCHANGED <<db, nextClassId, nextMemberId, nextTeamMemberId, reqs>>

(* POST /classes *)
Create(u, code) ==
    /\ Ready
    /\ nextClassId <= MaxClasses
    /\ nextMemberId <= MaxMembers
    /\ UNCHANGED <<teammembers, nextTeamMemberId, reqs>>
    /\ IF ~Permitted("create", u)
       THEN /\ response' = Forbidden("create", u)
            /\ UNCHANGED <<classrooms, members, nextClassId, nextMemberId>>
       ELSE IF ~ValidClassRoom(code, 0)
       THEN /\ response' = Resp("create", u, code, "400", {})
            /\ UNCHANGED <<classrooms, members, nextClassId, nextMemberId>>
       ELSE /\ nextClassId' = nextClassId + 1
            /\ \/ /\ classrooms' = classrooms \cup {NewClassRoom(code)}
                  /\ members' = InsertMember(TeacherMember(u, nextClassId))
                  /\ nextMemberId' = nextMemberId + 1
                  /\ response' = Resp("create", u, code, "201", {nextClassId})
               \/ \* the membership write raises: the bare except answers 500
                  /\ classrooms' = KeptOnFailure(classrooms \cup {NewClassRoom(code)},
                                                 nextClassId)
                  /\ UNCHANGED <<members, nextMemberId>>
                  /\ response' = Resp("create", u, code, "500", {nextClassId})

(* POST /classes/join *)
Join(u, code) ==
    /\ Ready
    /\ UNCHANGED <<classrooms, teammembers, nextClassId, nextTeamMemberId, reqs>>
    /\ IF code = NoCode  \* request.data['class_code'] raises KeyError
       THEN /\ response' = Resp("join", u, code, "500", {})
            /\ UNCHANGED <<members, nextMemberId>>
       ELSE IF MembersByCode(u, code) # {}
       THEN /\ response' = Resp("join", u, code, "200", {"already"})
            /\ UNCHANGED <<members, nextMemberId>>
       ELSE IF ClassesWithCode(code) = {}
       THEN /\ response' = Resp("join", u, code, "400", {})
            /\ UNCHANGED <<members, nextMemberId>>
       ELSE /\ nextMemberId <= MaxMembers
            /\ \E c \in ClassesWithCode(code) :
                  members' = InsertMember(StudentMember(u, c.id))
            /\ nextMemberId' = nextMemberId + 1
            /\ response' = Resp("join", u, code, "200", {"joined"})

(* POST join_class_as_guest *)
JoinClassAsGuest(u, code, number) ==
    /\ Ready
    /\ UNCHANGED <<classrooms, teammembers, nextClassId, nextTeamMemberId, reqs>>
    /\ IF code = NoCode
       THEN /\ response' = Resp("join_class_as_guest", u, code, "400", {"required"})
            /\ UNCHANGED <<members, nextMemberId>>
       ELSE IF MembersByCode(u, code) # {}
       THEN /\ response' = Resp("join_class_as_guest", u, code, "200", {"already"})
            /\ UNCHANGED <<members, nextMemberId>>
       ELSE IF ClassesWithCode(code) = {}
       THEN /\ response' = Resp("join_class_as_guest", u, code, "400", {"invalid"})
            /\ UNCHANGED <<members, nextMemberId>>
       ELSE /\ nextMemberId <= MaxMembers
            /\ \E c \in ClassesWithCode(code) :
                  members' = InsertMember(GuestMember(u, c.id, number))
            /\ nextMemberId' = nextMemberId + 1
            /\ response' = Resp("join_class_as_guest", u, code, "200", {"joined"})

(* The rows a classroom's deletion removes with it (cascade)               *)
MembersOfClass(id) == {m \in members : m.class_id = id}

TeamMembersOfClass(id) ==
    {t \in teammembers : \E m \in MembersOfClass(id) : t.class_member_id = m.id}

(* DELETE /classes/{id} *)
Destroy(u, id) ==
    /\ Ready
    /\ UNCHANGED <<nextClassId, nextMemberId, nextTeamMemberId, reqs>>
    /\ IF ~Permitted("destroy", u)
       THEN /\ response' = Forbidden("destroy", u)
            /\ UNCHANGED db
       ELSE IF id \notin ClassIds
       THEN /\ response' = Resp("destroy", u, id, "404", {})
            /\ UNCHANGED db
       ELSE /\ classrooms' = {c \in classrooms : c.id # id}
            /\ members' = members \ MembersOfClass(id)
            /\ teammembers' = teammembers \ TeamMembersOfClass(id)
            /\ response' = Resp("destroy", u, id, "204", {})

(* PUT /classes/{id}: the body replaces the classroom's fields *)
Update(u, id, code) ==
    /\ Ready
    /\ UNCHANGED <<members, teammembers, nextClassId, nextMemberId, nextTeamMemberId, reqs>>
    /\ IF ~Permitted("update", u)
       THEN /\ response' = Forbidden("update", u)
            /\ UNCHANGED classrooms
       ELSE IF id \notin ClassIds
       THEN /\ response' = Resp("update", u, id, "404", {})
            /\ UNCHANGED classrooms
       ELSE IF ~ValidClassRoom(code, id)
       THEN /\ response' = Resp("update", u, id, "400", {})
            /\ UNCHANGED classrooms
       ELSE /\ classrooms' = {IF c.id = id THEN [c EXCEPT !.class_code = code] ELSE c :
                                c \in classrooms}
            /\ response' = Resp("update", u, id, "200", {})

(* PATCH /classes/{id}: a field the body leaves out keeps its value *)
PartialUpdate(u, id, code) ==
    /\ Ready
    /\ UNCHANGED <<members, teammembers, nextClassId, nextMemberId, nextTeamMemberId, reqs>>
    /\ IF ~Permitted("partial_update", u)
       THEN /\ response' = Forbidden("partial_update", u)
            /\ UNCHANGED classrooms
       ELSE IF id \notin ClassIds
       THEN /\ response' = Resp("partial_update", u, id, "404", {})
            /\ UNCHANGED classrooms
       ELSE IF code = NoCode
       THEN /\ response' = Resp("partial_update", u, id, "200", {})
            /\ UNCHANGED classrooms
       ELSE IF ~ValidClassRoom(code, id)
       THEN /\ response' = Resp("partial_update", u, id, "400", {})
            /\ UNCHANGED classrooms
       ELSE /\ classrooms' = {IF c.id = id THEN [c EXCEPT !.class_code = code] ELSE c :
                                c \in classrooms}
            /\ response' = Resp("partial_update", u, id, "200", {})

(* ClassRoom.objects.filter(classmember__user_id=request.user,             *)
(*                          classmember__status=ClassMember.ACCEPTED)      *)
MutAcceptedClassesAnyStatus(u) ==
    {c.id : c \in {k \in classrooms : \E m \in members :
                     m.class_id = k.id /\ m.user_id = u}}

AcceptedClasses(u) ==
    {c.id : c \in {k \in classrooms : \E m \in members :
                     m.class_id = k.id /\ m.user_id = u /\ m.status = ACCEPTED}}

(* The queryset list() serializes; raises: the try block raised and the    *)
(* except branch took ClassRoom.objects.all()                              *)
ListQueryset(u, raises) ==
    IF raises THEN ClassIds
    ELSE IF is_superuser(u) THEN ClassIds
    ELSE AcceptedClasses(u)

(* GET /classes *)
List(u, raises) ==
    /\ Ready
    /\ UNCHANGED <<db, nextClassId, nextMemberId, nextTeamMemberId, reqs>>
    /\ response' = Resp("list", u, NoCode, "200", ListQueryset(u, raises))

MutNumberOfStudentsAnyStatus(id) ==
    Cardinality({m \in members : m.class_id = id /\ m.role = STUDENT})

(* ClassMember.objects.filter(class_id=class_id, role__in=roles,           *)
(*                status=ClassMember.ACCEPTED, role=ClassMember.STUDENT)   *)
NumberOfStudents(id) ==
    Cardinality({m \in members : /\ m.class_id = id
                                 /\ m.role \in {TEACHER, STUDENT}
                                 /\ m.status = ACCEPTED
                                 /\ m.role = STUDENT})

MutNumberOfTeamsCountsRows(id) ==
    Cardinality({x \in TeamMembersOfClass(id) : x.status = ACCEPTED})

(* TeamMember rows of the class with status ACCEPTED, grouped by team_id   *)
NumberOfTeams(id) ==
    Cardinality({t.team_id : t \in {x \in TeamMembersOfClass(id) : x.status = ACCEPTED}})

(* GET /classes/{id} *)
Retrieve(u, id) ==
    /\ Ready
    /\ UNCHANGED <<db, nextClassId, nextMemberId, nextTeamMemberId, reqs>>
    /\ IF id \notin ClassIds
       THEN response' = Resp("retrieve", u, id, "404", {})
       ELSE IF MembersOfPair(u, id) = {}
       THEN response' = Resp("retrieve", u, id, "401", {})
       ELSE response' = Resp("retrieve", u, id, "200",
                             {<<NumberOfStudents(id), NumberOfTeams(id)>>})

(* TeamMember.objects.filter(class_member_id_id=OuterRef('pk'), ...) *)
TeamMembersOf(m) == {t \in teammembers : t.class_member_id = m.id}

(* The rows of the nonleaders query, <<class member id, joined team member *)
(* id or 0>>: the STUDENT/ACCEPTED members of the class, left-joined with  *)
(* their TeamMember rows, kept where there is no TeamMember row or the     *)
(* annotation (the status of a PENDING TeamMember row of the member) is    *)
(* PENDING.                                                                *)
NonleaderRows(id) ==
    LET base == {m \in members : m.class_id = id /\ m.role = STUDENT /\ m.status = ACCEPTED}
        annotated(m) == \E t \in TeamMembersOf(m) : t.status = PENDING
    IN  {<<m.id, 0>> : m \in {x \in base : TeamMembersOf(x) = {}}}
        \cup UNION {{<<m.id, t.id>> : t \in TeamMembersOf(m)} :
                      m \in {x \in base : annotated(x)}}

MutLeaderRowsAnyStatus(id) ==
    LET base == {m \in members : m.class_id = id /\ m.role = STUDENT}
        annotated(m) == \E t \in TeamMembersOf(m) : t.role = LEADER
    IN  {<<m.id, 0>> : m \in {x \in base : annotated(x)}}

(* The rows of the leaders query: the STUDENT members of the class whose   *)
(* annotation (the status of a LEADER/ACCEPTED TeamMember row of the       *)
(* member) is ACCEPTED.                                                    *)
LeaderRows(id) ==
    LET base == {m \in members : m.class_id = id /\ m.role = STUDENT}
        annotated(m) == \E t \in TeamMembersOf(m) : t.role = LEADER /\ t.status = ACCEPTED
    IN  {<<m.id, 0>> : m \in {x \in base : annotated(x)}}

(* GET /classes/{id}/nonleaders *)
Nonleaders(u, id) ==
    /\ Ready
    /\ UNCHANGED <<db, nextClassId, nextMemberId, nextTeamMemberId, reqs>>
    /\ IF ~Permitted("nonleaders", u)
       THEN response' = Forbidden("nonleaders", u)
       ELSE response' = Resp("nonleaders", u, id, "200", NonleaderRows(id))

(* GET /classes/{id}/leaders *)
Leaders(u, id) ==
    /\ Ready
    /\ UNCHANGED <<db, nextClassId, nextMemberId, nextTeamMemberId, reqs>>
    /\ IF ~Permitted("leaders", u)
       THEN response' = Forbidden("leaders", u)
       ELSE response' = Resp("leaders", u, id, "200", LeaderRows(id))

Invites == UNION {{<<c.id, u>> : u \in c.invited_users} : c \in classrooms}

(* POST /classroom/inviteToClass *)
InviteToClass(id, email) ==
    /\ Ready
    /\ UNCHANGED <<members, teammembers, nextClassId, nextMemberId, nextTeamMemberId, reqs>>
    /\ IF email = NoEmail
       THEN /\ response' = Resp("inviteToClass", Anyone, email, "400", {})
            /\ UNCHANGED classrooms
       ELSE IF id \notin ClassIds
       THEN /\ response' = Resp("inviteToClass", Anyone, email, "404", {"class"})
            /\ UNCHANGED classrooms
       ELSE IF email \notin Users
       THEN /\ response' = Resp("inviteToClass", Anyone, email, "404", {"user"})
            /\ UNCHANGED classrooms
       ELSE /\ <<id, email>> \in Invites \/ Cardinality(Invites) < MaxInvites
            /\ classrooms' = {IF c.id = id
                              THEN [c EXCEPT !.invited_users = @ \cup {email}]
                              ELSE c : c \in classrooms}
            /\ response' = Resp("inviteToClass", Anyone, email, "200", {id})

MutInvitedClassroomsAnyMember(user) ==
    {c.id : c \in {k \in classrooms : user \in k.invited_users}}
      \ {m.class_id : m \in {x \in members : x.user_id = user}}

(* ClassRoom.objects.filter(invited_users=user).exclude(id__in=<class ids  *)
(* of the user's ACCEPTED ClassMember rows>)                               *)
InvitedClassrooms(user) ==
    {c.id : c \in {k \in classrooms : user \in k.invited_users}}
      \ {m.class_id : m \in {x \in members : x.user_id = user /\ x.status = ACCEPTED}}

(* POST /classroom/get_invited_classes *)
GetInvitedClasses(email) ==
    /\ Ready
    /\ UNCHANGED <<db, nextClassId, nextMemberId, nextTeamMemberId, reqs>>
    /\ IF email = NoEmail
       THEN response' = Resp("get_invited_classes", Anyone, email, "400", {})
       ELSE IF email \notin Users
       THEN response' = Resp("get_invited_classes", Anyone, email, "404", {})
       ELSE IF InvitedClassrooms(email) = {}
       THEN response' = Resp("get_invited_classes", Anyone, email, "404", {})
       ELSE response' = Resp("get_invited_classes", Anyone, email, "200",
                             InvitedClassrooms(email))

(* GET /classes/{id}/evals: the peer evaluations the ClassRoomPE rows link *)
(* to the classroom; evals are those rows' peer evaluations, tables this   *)
(* controller only reads                                                   *)
Evals(u, id, evals) ==
    /\ Ready
    /\ UNCHANGED <<db, nextClassId, nextMemberId, nextTeamMemberId, reqs>>
    /\ response' = Resp("evals", u, id, "200", evals)

Next ==
    \/ \E u \in Users, code \in Codes \cup {NoCode} : Create(u, code)
    \/ \E u \in Users, raises \in BOOLEAN : List(u, raises)
    \/ \E u \in Users, id \in 1..MaxClasses : Retrieve(u, id)
    \/ \E u \in Users, id \in 1..MaxClasses, code \in Codes \cup {NoCode} : Update(u, id, code)
    \/ \E u \in Users, id \in 1..MaxClasses, code \in Codes \cup {NoCode} :
          PartialUpdate(u, id, code)
    \/ \E u \in Users, id \in 1..MaxClasses : Destroy(u, id)
    \/ \E u \in Users, code \in Codes \cup {NoCode} : Join(u, code)
    \/ \E u \in Users, id \in 1..MaxClasses : Nonleaders(u, id)
    \/ \E u \in Users, id \in 1..MaxClasses : Leaders(u, id)
    \/ \E id \in 1..MaxClasses, email \in Emails : InviteToClass(id, email)
    \/ \E email \in Emails : GetInvitedClasses(email)
    \/ \E u \in Users, code \in Codes \cup {NoCode}, n \in RoleInputs :
          JoinClassAsGuest(u, code, n)
    \/ \E u \in Users, id \in 1..MaxClasses, evals \in SUBSET PeerEvals : Evals(u, id, evals)
    \/ Respond

Spec == Init /\ [][Next]_vars

----------------------------------------------------------------------------
(* The handlers from a database the external collaborators have already    *)
(* written to: classroom 1, one ClassMember row of it and one TeamMember   *)
(* row of that member.                                                     *)

InitFrame ==
    /\ classrooms = {[id |-> 1, class_code |-> "A", invited_users |-> {}]}
    /\ \E u \in Users, r \in {TEACHER, STUDENT, GUEST}, s \in {PENDING, ACCEPTED} :
          members = {[id |-> 1, user_id |-> u, class_id |-> 1, role |-> r, status |-> s]}
    /\ \E r \in {LEADER, MEMBER}, s \in {PENDING, ACCEPTED} :
          teammembers = {[id |-> 1, class_member_id |-> 1, team_id |-> "t1",
                          role |-> r, status |-> s]}
    /\ nextClassId = 2
    /\ nextMemberId = 2
    /\ nextTeamMemberId = 2
    /\ response = NoResponse
    /\ reqs = [r \in 1..MaxReqs |-> Idle]

SpecFrame == InitFrame /\ [][Next]_vars

----------------------------------------------------------------------------
(* The external collaborator that moves a membership from PENDING to       *)
(* ACCEPTED                                                                *)

AcceptMember(mid) ==
    /\ Ready
    /\ \E m \in members :
          /\ m.id = mid
          /\ m.status = PENDING
          /\ members' = (members \ {m}) \cup {[m EXCEPT !.status = ACCEPTED]}
    /\ UNCHANGED <<classrooms, teammembers, nextClassId, nextMemberId,
                   nextTeamMemberId, response, reqs>>

NextEnv ==
    \/ Next
    \/ \E mid \in 1..MaxMembers : AcceptMember(mid)

SpecEnv == Init /\ [][NextEnv]_vars

----------------------------------------------------------------------------
(* Requests that interleave: create, join and join_class_as_guest issue    *)
(* several database calls, and another request's call can run between two  *)
(* of them.  reqs[r] is the handler's position between its calls.          *)

Start(r, pc, u, code, id, n) ==
    reqs' = [reqs EXCEPT ![r] = [pc |-> pc, user |-> u, code |-> code,
                                 class |-> id, role |-> n]]

Finish(r) == reqs' = [reqs EXCEPT ![r] = Idle]

(* A new request takes the first free worker *)
Free(r) == reqs[r].pc = "idle" /\ \A q \in 1..(r - 1) : reqs[q].pc # "idle"

(* create, first write: super().create() saves the classroom *)
CreateClassroom(r, u, code) ==
    /\ Ready
    /\ Free(r)
    /\ nextClassId <= MaxClasses
    /\ UNCHANGED <<members, teammembers, nextMemberId, nextTeamMemberId>>
    /\ IF ~Permitted("create", u)
       THEN /\ response' = Forbidden("create", u)
            /\ UNCHANGED <<classrooms, nextClassId, reqs>>
       ELSE IF ~ValidClassRoom(code, 0)
       THEN /\ response' = Resp("create", u, code, "400", {})
            /\ UNCHANGED <<classrooms, nextClassId, reqs>>
       ELSE /\ classrooms' = classrooms \cup {NewClassRoom(code)}
            /\ nextClassId' = nextClassId + 1
            /\ Start(r, "create_member", u, NoCode, nextClassId, NoRole)
            /\ UNCHANGED response

(* create, second write: the classroom is read back and the creator's row  *)
(* inserted; the read raises when the classroom is gone.                   *)
CreateMember(r) ==
    /\ Ready
    /\ reqs[r].pc = "create_member"
    /\ nextMemberId <= MaxMembers
    /\ Finish(r)
    /\ UNCHANGED <<classrooms, teammembers, nextClassId, nextTeamMemberId>>
    /\ IF reqs[r].class \in ClassIds
       THEN /\ members' = InsertMember(TeacherMember(reqs[r].user, reqs[r].class))
            /\ nextMemberId' = nextMemberId + 1
            /\ response' = Resp("create", reqs[r].user, reqs[r].code, "201", {reqs[r].class})
       ELSE /\ UNCHANGED <<members, nextMemberId>>
            /\ response' = Resp("create", reqs[r].user, reqs[r].code, "500", {reqs[r].class})

(* create, second write raising: the bare except answers 500 *)
CreateMemberRaises(r) ==
    /\ Ready
    /\ reqs[r].pc = "create_member"
    /\ Finish(r)
    /\ classrooms' = KeptOnFailure(classrooms, reqs[r].class)
    /\ response' = Resp("create", reqs[r].user, reqs[r].code, "500", {reqs[r].class})
    /\ UNCHANGED <<members, teammembers, nextClassId, nextMemberId, nextTeamMemberId>>

(* create stopping between its two writes: no response, nothing undone *)
CreateStops(r) ==
    /\ reqs[r].pc = "create_member"
    /\ Finish(r)
    /\ UNCHANGED <<db, nextClassId, nextMemberId, nextTeamMemberId, response>>

(* join, first query: the existence check *)
JoinCheck(r, u, code) ==
    /\ Ready
    /\ Free(r)
    /\ UNCHANGED <<db, nextClassId, nextMemberId, nextTeamMemberId>>
    /\ IF code = NoCode
       THEN response' = Resp("join", u, code, "500", {}) /\ UNCHANGED reqs
       ELSE IF MembersByCode(u, code) # {}
       THEN response' = Resp("join", u, code, "200", {"already"}) /\ UNCHANGED reqs
       ELSE Start(r, "join_get", u, code, 0, NoRole) /\ UNCHANGED response

(* join, second query: ClassRoom.objects.get(class_code=class_code) *)
JoinGet(r) ==
    /\ Ready
    /\ reqs[r].pc = "join_get"
    /\ UNCHANGED <<db, nextClassId, nextMemberId, nextTeamMemberId>>
    /\ IF ClassesWithCode(reqs[r].code) = {}
       THEN /\ response' = Resp("join", reqs[r].user, reqs[r].code, "400", {})
            /\ Finish(r)
       ELSE /\ \E c \in ClassesWithCode(reqs[r].code) :
                  Start(r, "join_create", reqs[r].user, NoCode, c.id, NoRole)
            /\ UNCHANGED response

(* join, the insert; it raises when the classroom is gone *)
JoinCreate(r) ==
    /\ Ready
    /\ reqs[r].pc = "join_create"
    /\ nextMemberId <= MaxMembers
    /\ Finish(r)
    /\ UNCHANGED <<classrooms, teammembers, nextClassId, nextTeamMemberId>>
    /\ IF reqs[r].class \in ClassIds
       THEN /\ members' = InsertMember(StudentMember(reqs[r].user, reqs[r].class))
            /\ nextMemberId' = nextMemberId + 1
            /\ response' = Resp("join", reqs[r].user, reqs[r].code, "200", {"joined"})
       ELSE /\ UNCHANGED <<members, nextMemberId>>
            /\ response' = Resp("join", reqs[r].user, reqs[r].code, "500", {})

(* join_class_as_guest, first query: the existence check *)
GuestCheck(r, u, code, n) ==
    /\ Ready
    /\ Free(r)
    /\ UNCHANGED <<db, nextClassId, nextMemberId, nextTeamMemberId>>
    /\ IF code = NoCode
       THEN /\ response' = Resp("join_class_as_guest", u, code, "400", {"required"})
            /\ UNCHANGED reqs
       ELSE IF MembersByCode(u, code) # {}
       THEN /\ response' = Resp("join_class_as_guest", u, code, "200", {"already"})
            /\ UNCHANGED reqs
       ELSE Start(r, "guest_get", u, code, 0, n) /\ UNCHANGED response

(* join_class_as_guest, second query *)
GuestGet(r) ==
    /\ Ready
    /\ reqs[r].pc = "guest_get"
    /\ UNCHANGED <<db, nextClassId, nextMemberId, nextTeamMemberId>>
    /\ IF ClassesWithCode(reqs[r].code) = {}
       THEN /\ response' = Resp("join_class_as_guest", reqs[r].user, reqs[r].code,
                                "400", {"invalid"})
            /\ Finish(r)
       ELSE /\ \E c \in ClassesWithCode(reqs[r].code) :
                  Start(r, "guest_create", reqs[r].user, NoCode, c.id, reqs[r].role)
            /\ UNCHANGED response

(* join_class_as_guest, the insert *)
GuestCreate(r) ==
    /\ Ready
    /\ reqs[r].pc = "guest_create"
    /\ nextMemberId <= MaxMembers
    /\ Finish(r)
    /\ UNCHANGED <<classrooms, teammembers, nextClassId, nextTeamMemberId>>
    /\ IF reqs[r].class \in ClassIds
       THEN /\ members' = InsertMember(GuestMember(reqs[r].user, reqs[r].class, reqs[r].role))
            /\ nextMemberId' = nextMemberId + 1
            /\ response' = Resp("join_class_as_guest", reqs[r].user, reqs[r].code,
                                "200", {"joined"})
       ELSE /\ UNCHANGED <<members, nextMemberId>>
            /\ response' = Resp("join_class_as_guest", reqs[r].user, reqs[r].code, "500", {})

NextConc ==
    \/ \E r \in 1..MaxReqs, u \in Users, code \in Codes \cup {NoCode} : CreateClassroom(r, u, code)
    \/ \E r \in 1..MaxReqs : CreateMember(r)
    \/ \E r \in 1..MaxReqs : CreateMemberRaises(r)
    \/ \E r \in 1..MaxReqs : CreateStops(r)
    \/ \E r \in 1..MaxReqs, u \in Users, code \in Codes \cup {NoCode} : JoinCheck(r, u, code)
    \/ \E r \in 1..MaxReqs : JoinGet(r)
    \/ \E r \in 1..MaxReqs : JoinCreate(r)
    \/ \E r \in 1..MaxReqs, u \in Users, code \in Codes \cup {NoCode}, n \in ConcRoleInputs :
          GuestCheck(r, u, code, n)
    \/ \E r \in 1..MaxReqs : GuestGet(r)
    \/ \E r \in 1..MaxReqs : GuestCreate(r)
    \/ Respond

SpecConc == Init /\ [][NextConc]_vars

----------------------------------------------------------------------------
(* The datasets the external collaborators can leave: two classrooms, up   *)
(* to MaxMembers ClassMember rows of any user, classroom, role and status, *)
(* and up to MaxTeamMembers TeamMember rows of those members, of any team, *)
(* role and status.  A row's primary key is its rank among the rows that   *)
(* can be drawn.                                                           *)

UserSeq == <<"mod", "stu">>
RoleSeq == <<TEACHER, STUDENT, GUEST>>
StatusSeq == <<PENDING, ACCEPTED>>
TeamSeq == <<"t1", "t2">>
TeamRoleSeq == <<LEADER, MEMBER>>

Index(seq, x) == CHOOSE i \in 1..Len(seq) : seq[i] = x

DataClassRooms ==
    {[id |-> 1, class_code |-> "A", invited_users |-> {}],
     [id |-> 2, class_code |-> "B", invited_users |-> {}]}

DataMemberRows ==
    {[id |-> (((Index(UserSeq, u) - 1) * 2 + (c - 1)) * 3 + (Index(RoleSeq, r) - 1)) * 2
              + Index(StatusSeq, s),
      user_id |-> u, class_id |-> c, role |-> r, status |-> s] :
        u \in Users, c \in {1, 2}, r \in {TEACHER, STUDENT, GUEST}, s \in {PENDING, ACCEPTED}}

DataTeamMemberRows(ms) ==
    {[id |-> (((m.id - 1) * 2 + (Index(TeamSeq, t) - 1)) * 2 + (Index(TeamRoleSeq, r) - 1)) * 2
              + Index(StatusSeq, s),
      class_member_id |-> m.id, team_id |-> t, role |-> r, status |-> s] :
        m \in ms, t \in Teams, r \in {LEADER, MEMBER}, s \in {PENDING, ACCEPTED}}

RECURSIVE SubsetsUpTo(_, _)
SubsetsUpTo(S, k) ==
    IF k = 0 THEN {{}}
    ELSE LET P == SubsetsUpTo(S, k - 1)
         IN  P \cup {p \cup {x} : p \in P, x \in S}

InitTeams ==
    /\ classrooms = DataClassRooms
    /\ members \in SubsetsUpTo(DataMemberRows, MaxMembers)
    /\ teammembers \in SubsetsUpTo(DataTeamMemberRows(members), MaxTeamMembers)
    /\ nextClassId = 3
    /\ nextMemberId = 25
    /\ nextTeamMemberId = 193
    /\ response = NoResponse
    /\ reqs = [r \in 1..MaxReqs |-> Idle]

NextTeams ==
    \/ \E u \in Users, id \in 1..3 : Retrieve(u, id)
    \/ \E u \in Users, id \in 1..3 : Nonleaders(u, id)
    \/ \E u \in Users, id \in 1..3 : Leaders(u, id)
    \/ Respond

SpecTeams == InitTeams /\ [][NextTeams]_vars

----------------------------------------------------------------------------
(* Properties of the handlers run to completion (Spec, SpecEnv) *)

C2_JoinStep(u, code) ==
    /\ Ready
    /\ response'.op = "join"
    /\ response'.user = u
    /\ response'.arg = code

C2_JoinTwiceOneRow ==
    /\ [](\A u \in Users : \A id \in ClassIds : Cardinality(MembersOfPair(u, id)) <= 1)
    /\ [][\A u \in Users : \A code \in Codes : \A c \in ClassesWithCode(code) :
            C2_JoinStep(u, code) =>
               /\ response'.status = "200"
               /\ IF MembersOfPair(u, c.id) # {}
                  THEN members' = members
                  ELSE /\ members \subseteq members'
                       /\ Cardinality(members' \ members) = 1
                       /\ \A m \in members' \ members :
                             /\ m.user_id = u /\ m.class_id = c.id
                             /\ m.role = STUDENT /\ m.status = PENDING]_vars

C2_Witness ==
    /\ response.op = "join"
    /\ response.status = "200"
    /\ response.data = {"already"}
    /\ \E m \in members : m.user_id = response.user /\ m.role = STUDENT /\ m.status = PENDING

(* C3: a destroy request from an authenticated user who is not a moderator *)
(* is answered 403 and leaves the classrooms and every ClassMember row     *)
(* unchanged; the same gate applies to create, update, partial_update,     *)
(* nonleaders and leaders.                                                 *)
C3_NonModeratorForbidden ==
    [][\A op \in {"destroy", "create", "update", "partial_update", "nonleaders", "leaders"} :
          (Ready /\ response'.op = op /\ ~IsModerator(response'.user)) =>
              (response'.status = "403" /\ UNCHANGED db)]_vars

C3_Witness ==
    /\ response.op = "destroy"
    /\ ~IsModerator(response.user)
    /\ response.status = "403"
    /\ classrooms # {}
    /\ members # {}

(* C8: join_class_as_guest by a user with no membership in the classroom   *)
(* of the code adds exactly one ClassMember row, with status PENDING and   *)
(* role TEACHER when user_role is 1, STUDENT when it is 2, GUEST for any   *)
(* other or missing value; a caller who is not a moderator gets it too.    *)
C8_GuestJoinRoleFromRequest ==
    [][\A u \in Users : \A code \in Codes : \A n \in RoleInputs :
         \A c \in ClassesWithCode(code) :
          (JoinClassAsGuest(u, code, n) /\ MembersOfPair(u, c.id) = {}) =>
              /\ response'.status = "200"
              /\ members \subseteq members'
              /\ Cardinality(members' \ members) = 1
              /\ \A m \in members' \ members :
                    /\ m.user_id = u /\ m.class_id = c.id
                    /\ m.status = PENDING
                    /\ m.role = CASE n = "1" -> TEACHER
                                  [] n = "2" -> STUDENT
                                  [] OTHER -> GUEST]_vars

C8_Witness ==
    /\ response.op = "join_class_as_guest"
    /\ ~IsModerator(response.user)
    /\ response.data = {"joined"}
    /\ \E m \in members :
          m.user_id = response.user /\ m.role = TEACHER /\ m.status = PENDING

(* C9: list returns all classrooms to a superuser, and to any other user   *)
(* only the classrooms in which that user has a ClassMember row with       *)
(* status ACCEPTED.                                                        *)
C9_ListOnlyAcceptedClasses ==
    response.op = "list" =>
        IF is_superuser(response.user)
        THEN response.data = ClassIds
        ELSE \A id \in response.data :
                \E m \in members :
                   m.user_id = response.user /\ m.class_id = id /\ m.status = ACCEPTED

(* C5: for an existing user, get_invited_classes returns exactly the       *)
(* classrooms whose invited_users contains the user minus the classrooms   *)
(* in which the user has an ACCEPTED ClassMember row (a PENDING row does   *)
(* not remove a classroom); 200 when there is one, 404 when there is none. *)
C5_InvitedMinusAccepted ==
    (response.op = "get_invited_classes" /\ response.arg \in Users) =>
        /\ \A c \in classrooms :
              c.id \in response.data <=>
                 /\ response.arg \in c.invited_users
                 /\ ~\E m \in members : /\ m.user_id = response.arg
                                        /\ m.class_id = c.id
                                        /\ m.status = ACCEPTED
        /\ response.data \subseteq ClassIds
        /\ response.status = IF response.data = {} THEN "404" ELSE "200"

C5_Witness ==
    /\ response.op = "get_invited_classes"
    /\ \E c \in classrooms :
          /\ response.arg \in c.invited_users
          /\ c.id \notin response.data
          /\ \E m \in members : /\ m.user_id = response.arg
                                /\ m.class_id = c.id
                                /\ m.status = ACCEPTED

C13_UnknownCodeRejected ==
    [][(Ready /\ response'.op \in {"join", "join_class_as_guest"}) =>
          /\ (/\ response'.arg \in Codes
              /\ ~\E c \in classrooms : c.class_code = response'.arg) =>
                 /\ response'.status = "400"
                 /\ response'.op = "join_class_as_guest" => response'.data = {"invalid"}
                 /\ members' = members
          /\ (response'.op = "join_class_as_guest" /\ response'.arg = NoCode) =>
                 /\ response'.status = "400"
                 /\ response'.data = {"required"}
                 /\ UNCHANGED <<db, nextClassId, nextMemberId, nextTeamMemberId>>]_vars

C13_Witness ==
    /\ response.op \in {"join", "join_class_as_guest"}
    /\ response.arg \in Codes
    /\ response.status = "400"
    /\ classrooms # {}
    /\ members # {}
    /\ ~\E c \in classrooms : c.class_code = response.arg

(* The ACCEPTED rows are the TEACHER rows create() gave the creators: one  *)
(* per classroom at most, of a user who may create, and the row of the     *)
(* classroom a create has just answered is the requesting user's.          *)
AcceptedRowsAreCreators ==
    /\ \A m \in members : m.status = ACCEPTED =>
          /\ m.role = TEACHER
          /\ IsModerator(m.user_id)
          /\ \A n \in members :
                (n.class_id = m.class_id /\ n.status = ACCEPTED) => n.id = m.id
    /\ (response.op = "create" /\ response.status = "201") =>
          \A m \in members :
             (m.class_id \in response.data /\ m.status = ACCEPTED) =>
                 m.user_id = response.user

(* The rows of the user and classroom a join has just answered are PENDING *)
JoinedRowsArePending ==
    (response.op \in {"join", "join_class_as_guest"} /\ response.data = {"joined"}) =>
        \A m \in MembersByCode(response.user, response.arg) : m.status = PENDING

LeadersAndNonleadersEmpty ==
    response.op \in {"leaders", "nonleaders"} => response.data = {}

(* A user who is not a superuser (list gives a superuser every classroom)  *)
(* is not listed a classroom in which the user's rows are PENDING          *)
JoinedClassroomNotListed ==
    (response.op = "list" /\ ~is_superuser(response.user)) =>
        \A id \in response.data :
           ~(/\ MembersOfPair(response.user, id) # {}
             /\ \A m \in MembersOfPair(response.user, id) : m.status = PENDING)

(* C14: in every state reachable from an empty database through the        *)
(* controller's operations alone, every ClassMember row with status        *)
(* ACCEPTED has role TEACHER and belongs to the user who created that      *)
(* classroom, and every row created by join or join_class_as_guest has     *)
(* status PENDING; so nonleaders and leaders return empty lists and a user *)
(* who joined never sees the joined classroom in list.                     *)
C14_OnlyCreatorsAccepted ==
    /\ AcceptedRowsAreCreators
    /\ JoinedRowsArePending
    /\ LeadersAndNonleadersEmpty
    /\ JoinedClassroomNotListed

----------------------------------------------------------------------------
(* Properties of the read handlers over the datasets (SpecTeams) *)

AtMostOneTeamMemberEach == \A m \in members : Cardinality(TeamMembersOf(m)) <= 1

Listed(rows) == {r[1] : r \in rows}

(* The members the two handlers list for the classroom of the last         *)
(* leaders or nonleaders response                                          *)
ListedNonleaders ==
    IF response.op = "nonleaders" THEN Listed(response.data)
    ELSE Listed(NonleaderRows(response.arg))

ListedLeaders ==
    IF response.op = "leaders" THEN Listed(response.data)
    ELSE Listed(LeaderRows(response.arg))

StudentsOf(id) == {m.id : m \in {x \in members : x.class_id = id /\ x.role = STUDENT}}

LeadersOrNonleadersAnswered ==
    /\ response.op \in {"leaders", "nonleaders"}
    /\ response.status = "200"
    /\ AtMostOneTeamMemberEach

(* C4 as claimed: when every ClassMember has at most one TeamMember row,   *)
(* leaders and nonleaders partition the classroom's STUDENT members: every *)
(* STUDENT member is in exactly one of the two results.                    *)
C4_LeadersNonleadersPartition ==
    LeadersOrNonleadersAnswered =>
        /\ ListedLeaders \cap ListedNonleaders = {}
        /\ ListedLeaders \cup ListedNonleaders = StudentsOf(response.arg)

(* C4 as amended: when every ClassMember has at most one TeamMember row,   *)
(* every member leaders or nonleaders lists is a STUDENT member of the     *)
(* classroom and no member is in both results (a STUDENT member can be in  *)
(* neither).                                                               *)
C4_LeadersNonleadersDisjoint ==
    LeadersOrNonleadersAnswered =>
        /\ ListedLeaders \cap ListedNonleaders = {}
        /\ ListedLeaders \cup ListedNonleaders \subseteq StudentsOf(response.arg)

C4_Witness ==
    /\ LeadersOrNonleadersAnswered
    /\ ListedLeaders # {}
    /\ ListedNonleaders # {}
    /\ teammembers # {}

(* C10: retrieve answers 404 when the classroom does not exist, 401 when   *)
(* the requesting user has no ClassMember row for it, and otherwise 200    *)
(* with number_of_students the count of STUDENT/ACCEPTED ClassMember rows  *)
(* of the classroom and number_of_teams the number of distinct team ids    *)
(* among the ACCEPTED TeamMember rows of the classroom's members.          *)
C10_RetrieveMembersOnly ==
    response.op = "retrieve" =>
        IF ~\E c \in classrooms : c.id = response.arg
        THEN response.status = "404" /\ response.data = {}
        ELSE IF ~\E m \in members : m.user_id = response.user /\ m.class_id = response.arg
        THEN response.status = "401" /\ response.data = {}
        ELSE LET students == {m \in members : /\ m.class_id = response.arg
                                              /\ m.role = STUDENT
                                              /\ m.status = ACCEPTED}
                 teams == {t.team_id : t \in
                             {x \in teammembers :
                                /\ x.status = ACCEPTED
                                /\ \E m \in members : /\ m.id = x.class_member_id
                                                      /\ m.class_id = response.arg}}
             IN  /\ response.status = "200"
                 /\ response.data = {<<Cardinality(students), Cardinality(teams)>>}

C10_Witness ==
    /\ response.op = "retrieve"
    /\ response.status = "200"
    /\ response.data = {<<2, 1>>}
    /\ Cardinality(teammembers) = 2

(* The TeamMember row of a member that was inserted last *)
MostRecentTeamMember(m) ==
    CHOOSE t \in TeamMembersOf(m) : \A s \in TeamMembersOf(m) : s.id <= t.id

NonleadersAsSpecified(id) ==
    {m.id : m \in {x \in members :
                     /\ x.class_id = id
                     /\ x.role = STUDENT
                     /\ x.status = ACCEPTED
                     /\ \/ TeamMembersOf(x) = {}
                        \/ MostRecentTeamMember(x).status = PENDING}}

(* C11: nonleaders for a classroom returns exactly the ClassMember rows of *)
(* that classroom with role STUDENT and status ACCEPTED that have no       *)
(* TeamMember row or whose most recent TeamMember row has status PENDING,  *)
(* and lists each such member once.                                        *)
C11_NonleadersExactlyOnce ==
    (response.op = "nonleaders" /\ response.status = "200") =>
        /\ Listed(response.data) = NonleadersAsSpecified(response.arg)
        /\ Cardinality(response.data) = Cardinality(Listed(response.data))

----------------------------------------------------------------------------
(* Properties of the interleaved handlers (SpecConc) *)

(* C6: join and join_class_as_guest are not idempotent under concurrent    *)
(* double submission: a request that ran its existence check inserts its   *)
(* row whatever rows exist by then, so two requests that both passed the   *)
(* check both insert, and nothing at the insert prevents the second row.   *)
C6_InsertAfterCheckIsUnconditional ==
    [][\A r \in 1..MaxReqs :
          (/\ reqs[r].pc \in {"join_create", "guest_create"}
           /\ reqs'[r].pc = "idle"
           /\ reqs[r].class \in ClassIds) =>
              /\ members \subseteq members'
              /\ Cardinality(members' \ members) = 1
              /\ \A m \in members' \ members :
                    /\ m.user_id = reqs[r].user
                    /\ m.class_id = reqs[r].class
                    /\ m.status = PENDING]_vars

C6_Witness ==
    /\ \A r \in 1..MaxReqs : reqs[r].pc = "idle"
    /\ \E m1 \in members : \E m2 \in members :
          /\ m1.id # m2.id
          /\ m1.user_id = m2.user_id
          /\ m1.class_id = m2.class_id
          /\ m1.status = PENDING /\ m2.status = PENDING

(* C7: create writes the classroom and the creator's membership in two     *)
(* steps: a create that ends after the classroom write either inserts the  *)
(* TEACHER/ACCEPTED row and answers 201, or (the membership write raised,  *)
(* answered 500, or the request stopped) leaves the classroom persisted    *)
(* and the ClassMember table as it was.                                    *)
C7_CreateFailureKeepsClassroom ==
    [][\A r \in 1..MaxReqs :
          (reqs[r].pc = "create_member" /\ reqs'[r].pc = "idle") =>
              /\ classrooms' = classrooms
              /\ \/ /\ response'.op = "create" /\ response'.status = "201"
                    /\ members \subseteq members'
                    /\ Cardinality(members' \ members) = 1
                    /\ \A m \in members' \ members :
                          /\ m.user_id = reqs[r].user /\ m.class_id = reqs[r].class
                          /\ m.role = TEACHER /\ m.status = ACCEPTED
                 \/ /\ members' = members
                    /\ response' = response
                 \/ /\ members' = members
                    /\ response'.op = "create" /\ response'.status = "500"]_vars

C7_Witness ==
    /\ \A r \in 1..MaxReqs : reqs[r].pc = "idle"
    /\ \E c \in classrooms :
          ~\E m \in members : m.class_id = c.id /\ m.role = TEACHER
    /\ response.op = "create"
    /\ response.status = "500"

====
